---- MODULE Spec2Model ----
(***************************************************************************)
(* fengjson: read_json_to_dict, xiervjson and json_to_dict                 *)
(* (src/fengjson.py) over a small filesystem.                              *)
(*                                                                         *)
(* Text is a sequence of characters, each a one-element token.  A Python   *)
(* value is a record [t, b, n, s, items]; t is the type tag, and a dict    *)
(* is the sequence of its (key, value) items in insertion order.           *)
(***************************************************************************)
EXTENDS Integers, Sequences, FiniteSets, TLC

(***************************************************************************)
(* Characters                                                              *)
(***************************************************************************)
QUOTE  == "\""
BSLASH == "\\"
NL     == "\n"
SP     == " "
SLASH  == "/"
\* U+00E9, a character outside ASCII
EACUTE == "U+00E9"
\* a byte that is no valid UTF-8 (and no ASCII) text
BADBYTE == "0xFF"
\* U+0000, which no path handed to the operating system may hold
NUL    == "U+0000"

DigitChars == <<"0", "1", "2", "3", "4", "5", "6", "7", "8", "9">>

IsDigit(c) == \E i \in 1..10 : DigitChars[i] = c

DigitVal(c) == (CHOOSE i \in 1..10 : DigitChars[i] = c) - 1

Whitespace == {SP, NL, "\t", "\r"}

(***************************************************************************)
(* Python values                                                           *)
(***************************************************************************)
PyVal(t, b, n, s, items) == [t |-> t, b |-> b, n |-> n, s |-> s, items |-> items]

None       == PyVal("None", FALSE, 0, <<>>, <<>>)
PyBool(b)  == PyVal("bool", b, 0, <<>>, <<>>)
PyTrue     == PyBool(TRUE)
PyFalse    == PyBool(FALSE)
PyInt(n)   == PyVal("int", FALSE, n, <<>>, <<>>)
PyStr(s)   == PyVal("str", FALSE, 0, s, <<>>)
PyList(xs) == PyVal("list", FALSE, 0, <<>>, [i \in 1..Len(xs) |-> [k |-> <<>>, v |-> xs[i]]])
PyDict(kv) == PyVal("dict", FALSE, 0, <<>>, kv)
\* object(): a value of no JSON type
PyObject   == PyVal("object", FALSE, 0, <<>>, <<>>)

Item(k, v) == [k |-> k, v |-> v]

isinstance(o, t) == o.t = t

Keys(d) == {d.items[i].k : i \in 1..Len(d.items)}

\* d[k], for k a key of d
Get(d, k) == d.items[CHOOSE i \in 1..Len(d.items) : d.items[i].k = k].v

\* d[k] = v: a present key keeps its place, a new one goes last
SetItem(d, k, v) ==
    IF k \in Keys(d)
    THEN PyDict([i \in 1..Len(d.items) |->
                    IF d.items[i].k = k THEN Item(k, v) ELSE d.items[i]])
    ELSE PyDict(Append(d.items, Item(k, v)))

\* bool(o) of a dict or None, as `default or {}` reads it
Truthy(o) ==
    CASE o.t = "None" -> FALSE
      [] o.t = "dict" -> Len(o.items) > 0
      [] o.t = "list" -> Len(o.items) > 0
      [] o.t = "str"  -> Len(o.s) > 0
      [] o.t = "int"  -> o.n # 0
      [] o.t = "bool" -> o.b
      [] OTHER        -> TRUE

\* `return default` where the code has `return default or {}`
Or_first(a, b) == a

\* a or b
Or(a, b) == IF Truthy(a) THEN a ELSE b

RECURSIVE Flatten(_)
Flatten(chunks) ==
    IF chunks = <<>> THEN <<>> ELSE Head(chunks) \o Flatten(Tail(chunks))

(***************************************************************************)
(* json.dumps / json.dump with an integer indent: the encoder yields the   *)
(* text in chunks; dumps joins them, dump writes them one by one.          *)
(***************************************************************************)
RECURSIVE Spaces(_)
Spaces(n) == IF n <= 0 THEN <<>> ELSE <<SP>> \o Spaces(n - 1)

\* '\n' + ' ' * indent * level
NewlineIndent(indent, level) == <<NL>> \o Spaces(indent * level)

RECURSIVE IntStr(_)
IntStr(n) ==
    IF n < 0 THEN <<"-">> \o IntStr(0 - n)
    ELSE IF n < 10 THEN <<DigitChars[n + 1]>>
    ELSE IntStr(n \div 10) \o <<DigitChars[(n % 10) + 1]>>

IsAscii(c) == c \notin {EACUTE, BADBYTE}

EscapeChar(c, ensure_ascii) ==
    CASE c = QUOTE  -> <<BSLASH, QUOTE>>
      [] c = BSLASH -> <<BSLASH, BSLASH>>
      [] c = NL     -> <<BSLASH, "n">>
      [] c = EACUTE /\ ensure_ascii -> <<BSLASH, "u", "0", "0", "e", "9">>
      [] OTHER      -> <<c>>

RECURSIVE EscapeAll(_, _)
EscapeAll(s, ensure_ascii) ==
    IF s = <<>> THEN <<>>
    ELSE EscapeChar(Head(s), ensure_ascii) \o EscapeAll(Tail(s), ensure_ascii)

\* the encoder of a str: the quoted, escaped text
EncodeStr(s, ensure_ascii) == <<QUOTE>> \o EscapeAll(s, ensure_ascii) \o <<QUOTE>>

IsScalar(o) == o.t \in {"str", "None", "bool", "int"}

EncodeScalar(o, ensure_ascii) ==
    CASE o.t = "str"  -> EncodeStr(o.s, ensure_ascii)
      [] o.t = "None" -> <<"n", "u", "l", "l">>
      [] o.t = "bool" -> IF o.b THEN <<"t", "r", "u", "e">> ELSE <<"f", "a", "l", "s", "e">>
      [] o.t = "int"  -> IntStr(o.n)

\* [chunks, ok]: the chunks yielded, and whether the encoder finished; ok is
\* FALSE when it raised TypeError at a value of no JSON type, after the
\* chunks before it.
RECURSIVE IterEncode(_, _, _, _), EncodeListFrom(_, _, _, _, _), EncodeDictFrom(_, _, _, _, _)
IterEncode(o, indent, ensure_ascii, level) ==
    CASE IsScalar(o) -> [chunks |-> <<EncodeScalar(o, ensure_ascii)>>, ok |-> TRUE]
      [] o.t = "list" ->
            IF o.items = <<>> THEN [chunks |-> <<(<<"[", "]">>)>>, ok |-> TRUE]
            ELSE EncodeListFrom(o.items, 1, indent, ensure_ascii, level + 1)
      [] o.t = "dict" ->
            IF o.items = <<>> THEN [chunks |-> <<(<<"{", "}">>)>>, ok |-> TRUE]
            ELSE LET r == EncodeDictFrom(o.items, 1, indent, ensure_ascii, level + 1)
                 IN  [chunks |-> <<(<<"{">>), NewlineIndent(indent, level + 1)>> \o r.chunks,
                      ok |-> r.ok]
      [] OTHER -> [chunks |-> <<>>, ok |-> FALSE]

EncodeListFrom(items, i, indent, ensure_ascii, level) ==
    IF i > Len(items)
    THEN [chunks |-> <<NewlineIndent(indent, level - 1), (<<"]">>)>>, ok |-> TRUE]
    ELSE LET buf  == IF i = 1 THEN <<"[">> \o NewlineIndent(indent, level)
                              ELSE <<",">> \o NewlineIndent(indent, level)
             v    == items[i].v
             sub  == IterEncode(v, indent, ensure_ascii, level)
             head == IF IsScalar(v) THEN <<buf \o EncodeScalar(v, ensure_ascii)>>
                                    ELSE <<buf>> \o sub.chunks
         IN  IF ~IsScalar(v) /\ ~sub.ok THEN [chunks |-> head, ok |-> FALSE]
             ELSE LET rest == EncodeListFrom(items, i + 1, indent, ensure_ascii, level)
                  IN  [chunks |-> head \o rest.chunks, ok |-> rest.ok]

EncodeDictFrom(items, i, indent, ensure_ascii, level) ==
    IF i > Len(items)
    THEN [chunks |-> <<NewlineIndent(indent, level - 1), (<<"}">>)>>, ok |-> TRUE]
    ELSE LET sep  == IF i = 1 THEN <<>> ELSE <<(<<",">> \o NewlineIndent(indent, level))>>
             v    == items[i].v
             sub  == IterEncode(v, indent, ensure_ascii, level)
             head == sep \o <<EncodeStr(items[i].k, ensure_ascii), (<<":", SP>>)>> \o sub.chunks
         IN  IF ~sub.ok THEN [chunks |-> head, ok |-> FALSE]
             ELSE LET rest == EncodeDictFrom(items, i + 1, indent, ensure_ascii, level)
                  IN  [chunks |-> head \o rest.chunks, ok |-> rest.ok]

\* json.dumps(data, indent=indent, ensure_ascii=ensure_ascii): [raised, text]
json_dumps(data, indent, ensure_ascii) ==
    LET r == IterEncode(data, indent, ensure_ascii, 0)
    IN  IF r.ok THEN [raised |-> "", text |-> Flatten(r.chunks)]
                ELSE [raised |-> "TypeError", text |-> <<>>]

(***************************************************************************)
(* json.loads: a parse result is [ok, v, pos]; ok = FALSE is               *)
(* json.JSONDecodeError, pos the index after the value read.  Numbers are  *)
(* integers; the only \u escape read is the one the encoder above writes.  *)
(***************************************************************************)
Fail == [ok |-> FALSE, v |-> None, pos |-> 0]

Done(v, pos) == [ok |-> TRUE, v |-> v, pos |-> pos]

At(s, i) == IF i >= 1 /\ i <= Len(s) THEN s[i] ELSE "EOF"

RECURSIVE SkipWs(_, _)
SkipWs(s, i) == IF At(s, i) \in Whitespace THEN SkipWs(s, i + 1) ELSE i

Matches(s, i, word) ==
    /\ i + Len(word) - 1 <= Len(s)
    /\ \A j \in 1..Len(word) : s[i + j - 1] = word[j]

\* s[i] is the character after the opening quote
RECURSIVE ScanString(_, _, _)
ScanString(s, i, acc) ==
    LET c == At(s, i) IN
    CASE c = "EOF" -> Fail
      [] c = QUOTE -> Done(acc, i + 1)
      [] c = NL \/ c = NUL -> Fail
      [] c = BSLASH ->
            LET e == At(s, i + 1) IN
            CASE e = QUOTE  -> ScanString(s, i + 2, Append(acc, QUOTE))
              [] e = BSLASH -> ScanString(s, i + 2, Append(acc, BSLASH))
              [] e = "n"    -> ScanString(s, i + 2, Append(acc, NL))
              [] e = "u" /\ Matches(s, i + 2, <<"0", "0", "e", "9">>)
                            -> ScanString(s, i + 6, Append(acc, EACUTE))
              [] OTHER      -> Fail
      [] OTHER -> ScanString(s, i + 1, Append(acc, c))

RECURSIVE ScanDigits(_, _, _)
ScanDigits(s, i, acc) ==
    IF IsDigit(At(s, i)) THEN ScanDigits(s, i + 1, acc * 10 + DigitVal(s[i]))
    ELSE [n |-> acc, pos |-> i]

\* -?(0|[1-9]\d*)
ScanNumber(s, i) ==
    LET neg == At(s, i) = "-"
        j   == IF neg THEN i + 1 ELSE i
    IN  IF ~IsDigit(At(s, j)) THEN Fail
        ELSE LET d == IF s[j] = "0" THEN [n |-> 0, pos |-> j + 1] ELSE ScanDigits(s, j, 0)
             IN  Done(PyInt(IF neg THEN 0 - d.n ELSE d.n), d.pos)

RECURSIVE ScanOnce(_, _), ScanArray(_, _, _), ScanObject(_, _, _)
ScanOnce(s, i) ==
    LET c == At(s, i) IN
    CASE c = QUOTE -> LET r == ScanString(s, i + 1, <<>>)
                      IN  IF r.ok THEN Done(PyStr(r.v), r.pos) ELSE Fail
      [] c = "{" -> LET j == SkipWs(s, i + 1)
                    IN  IF At(s, j) = "}" THEN Done(PyDict(<<>>), j + 1)
                        ELSE ScanObject(s, j, PyDict(<<>>))
      [] c = "[" -> LET j == SkipWs(s, i + 1)
                    IN  IF At(s, j) = "]" THEN Done(PyList(<<>>), j + 1)
                        ELSE ScanArray(s, j, <<>>)
      [] c = "n" /\ Matches(s, i, <<"n", "u", "l", "l">>) -> Done(None, i + 4)
      [] c = "t" /\ Matches(s, i, <<"t", "r", "u", "e">>) -> Done(PyTrue, i + 4)
      [] c = "f" /\ Matches(s, i, <<"f", "a", "l", "s", "e">>) -> Done(PyFalse, i + 5)
      [] c = "-" \/ IsDigit(c) -> ScanNumber(s, i)
      [] OTHER -> Fail

\* s[i] starts the next element
ScanArray(s, i, acc) ==
    LET r == ScanOnce(s, i) IN
    IF ~r.ok THEN Fail
    ELSE LET j    == SkipWs(s, r.pos)
             acc2 == Append(acc, r.v)
         IN  CASE At(s, j) = "]" -> Done(PyList(acc2), j + 1)
               [] At(s, j) = "," -> ScanArray(s, SkipWs(s, j + 1), acc2)
               [] OTHER -> Fail

\* s[i] must be the quote that opens the next key
ScanObject(s, i, acc) ==
    IF At(s, i) # QUOTE THEN Fail
    ELSE LET k == ScanString(s, i + 1, <<>>) IN
         IF ~k.ok THEN Fail
         ELSE LET c == SkipWs(s, k.pos) IN
              IF At(s, c) # ":" THEN Fail
              ELSE LET r == ScanOnce(s, SkipWs(s, c + 1)) IN
                   IF ~r.ok THEN Fail
                   ELSE LET j    == SkipWs(s, r.pos)
                            acc2 == SetItem(acc, k.v, r.v)
                        IN  CASE At(s, j) = "}" -> Done(acc2, j + 1)
                              [] At(s, j) = "," -> ScanObject(s, SkipWs(s, j + 1), acc2)
                              [] OTHER -> Fail

\* json.loads(content): [raised, v]
json_loads(content) ==
    LET r == ScanOnce(content, SkipWs(content, 1))
    IN  IF r.ok /\ SkipWs(content, r.pos) = Len(content) + 1
        THEN [raised |-> "", v |-> r.v]
        ELSE [raised |-> "JSONDecodeError", v |-> None]

\* content.strip()
RECURSIVE Strip(_)
Strip(s) ==
    IF s = <<>> THEN s
    ELSE IF Head(s) \in Whitespace THEN Strip(Tail(s))
    ELSE IF s[Len(s)] \in Whitespace THEN Strip(SubSeq(s, 1, Len(s) - 1))
    ELSE s

(***************************************************************************)
(* The filesystem: dirs is the set of paths that are directories, files    *)
(* maps each path a file may have to [exists, content].  Paths are         *)
(* relative to the working directory, which always exists.                 *)
(***************************************************************************)
P_f   == <<"f">>
P_d   == <<"d">>
P_de  == <<"d", SLASH, "e">>
P_def == <<"d", SLASH, "e", SLASH, "f">>
P_nul == <<NUL, SLASH, "f">>

FilePaths == {P_f, P_d, P_def}

NoFile == [exists |-> FALSE, content |-> <<>>]

FileOf(content) == [exists |-> TRUE, content |-> content]

HasNul(p) == \E i \in 1..Len(p) : p[i] = NUL

RECURSIVE RStripSlash(_)
RStripSlash(p) ==
    IF p # <<>> /\ p[Len(p)] = SLASH THEN RStripSlash(SubSeq(p, 1, Len(p) - 1)) ELSE p

\* os.path.dirname: the text up to the last slash, its trailing slashes dropped
\* unless it is slashes only
dirname(p) ==
    LET idx  == {i \in 1..Len(p) : p[i] = SLASH}
        last == IF idx = {} THEN 0 ELSE CHOOSE i \in idx : \A j \in idx : j <= i
        head == SubSeq(p, 1, last)
    IN  IF RStripSlash(head) = <<>> THEN head ELSE RStripSlash(head)

isfile(fs, p) == p \in FilePaths /\ fs.files[p].exists

isdir(fs, p) == p = <<>> \/ p \in fs.dirs

\* os.path.exists: False too for a path the operating system cannot take
exists(fs, p) == ~HasNul(p) /\ (isfile(fs, p) \/ isdir(fs, p))

Encodings == {"utf-8", "ascii"}

\* a character the codec can write
Encodable(c, encoding) == IF encoding = "ascii" THEN IsAscii(c) ELSE c # BADBYTE

\* a file's bytes the codec can read as text
Decodable(content, encoding) == \A i \in 1..Len(content) : Encodable(content[i], encoding)

(***************************************************************************)
(* What the operating system may do on its own in a call: nothing, or      *)
(* fail the open or the flush of the written text, or fail makedirs after  *)
(* it made none or one of the missing directories.                         *)
(***************************************************************************)
ReadEnvs == {"ok", "open"}

WriteEnvs == {"ok", "makedirs0", "makedirs1", "open", "flush"}

(***************************************************************************)
(* read_json_to_dict(file_path, encoding, default): the value returned     *)
(***************************************************************************)
\* `default or {}` where the code has `default`, for a path that does not exist
read_json_to_dict_or_empty(fs, file_path, encoding, default, env) ==
    IF ~isinstance(file_path, "str") THEN default
    ELSE IF default # None /\ ~isinstance(default, "dict") THEN None
    ELSE IF ~exists(fs, file_path.s) THEN Or(default, PyDict(<<>>))
    ELSE IF ~isfile(fs, file_path.s) THEN Or(default, PyDict(<<>>))
    ELSE IF env = "open" THEN default
    ELSE LET content == fs.files[file_path.s].content IN
         IF ~Decodable(content, encoding) THEN default
         ELSE IF Strip(content) = <<>> THEN Or(default, PyDict(<<>>))
         ELSE LET data == json_loads(content) IN
              IF data.raised # "" THEN default
              ELSE IF ~isinstance(data.v, "dict") THEN Or(default, PyDict(<<>>))
              ELSE data.v

read_json_to_dict(fs, file_path, encoding, default, env) ==
    IF ~isinstance(file_path, "str") THEN default
    ELSE IF default # None /\ ~isinstance(default, "dict") THEN None
    ELSE IF ~exists(fs, file_path.s) THEN default
    ELSE IF ~isfile(fs, file_path.s) THEN default
    ELSE IF env = "open" THEN default                              \* OSError
    ELSE LET content == fs.files[file_path.s].content IN
         IF ~Decodable(content, encoding) THEN default             \* UnicodeDecodeError
         ELSE IF Strip(content) = <<>> THEN Or(default, PyDict(<<>>))
         ELSE LET data == json_loads(content) IN
              IF data.raised # "" THEN default                     \* JSONDecodeError
              ELSE IF ~isinstance(data.v, "dict") THEN Or(default, PyDict(<<>>))
              ELSE data.v

(***************************************************************************)
(* json_to_dict(file_path, target_dict, encoding): [ret, target], the      *)
(* value returned and the target after the call                            *)
(***************************************************************************)
RECURSIVE UpdateFrom(_, _, _)
UpdateFrom(target, items, i) ==
    IF i > Len(items) THEN target
    ELSE UpdateFrom(SetItem(target, items[i].k, items[i].v), items, i + 1)

\* only the keys the target lacks are taken
update_setdefault(target, data) ==
    UpdateFrom(target, SelectSeq(data.items, LAMBDA it : it.k \notin Keys(target)), 1)

\* target.update(data)
update(target, data) == UpdateFrom(target, data.items, 1)

\* open(file_path, 'r') then json.load: [raised, v]
OpenAndLoad(fs, file_path, encoding, env) ==
    IF ~isinstance(file_path, "str") THEN [raised |-> "OSError", v |-> None]
    ELSE IF HasNul(file_path.s) THEN [raised |-> "ValueError", v |-> None]
    ELSE IF isdir(fs, file_path.s) THEN [raised |-> "OSError", v |-> None]
    ELSE IF ~isfile(fs, file_path.s) THEN [raised |-> "FileNotFoundError", v |-> None]
    ELSE IF env = "open" THEN [raised |-> "OSError", v |-> None]
    ELSE IF ~Decodable(fs.files[file_path.s].content, encoding)
         THEN [raised |-> "UnicodeDecodeError", v |-> None]
    ELSE json_loads(fs.files[file_path.s].content)

\* the mode read from the target's truth value, not from its being None
json_to_dict_truthy(fs, file_path, target_dict, encoding, env) ==
    LET data   == OpenAndLoad(fs, file_path, encoding, env)
        failed == [ret |-> IF ~Truthy(target_dict) THEN PyDict(<<>>) ELSE PyFalse,
                   target |-> target_dict]
    IN  IF data.raised # "" THEN failed
        ELSE IF ~isinstance(data.v, "dict") THEN failed
        ELSE IF target_dict # None THEN
                IF ~isinstance(target_dict, "dict") THEN failed
                ELSE [ret |-> PyTrue, target |-> update(target_dict, data.v)]
        ELSE [ret |-> data.v, target |-> target_dict]

json_to_dict(fs, file_path, target_dict, encoding, env) ==
    LET data   == OpenAndLoad(fs, file_path, encoding, env)
        failed == [ret |-> IF target_dict = None THEN PyDict(<<>>) ELSE PyFalse,
                   target |-> target_dict]
    IN  IF data.raised # "" THEN failed
        ELSE IF ~isinstance(data.v, "dict") THEN failed                \* TypeError
        ELSE IF target_dict # None THEN
                IF ~isinstance(target_dict, "dict") THEN failed        \* TypeError
                ELSE [ret |-> PyTrue, target |-> update(target_dict, data.v)]
        ELSE [ret |-> data.v, target |-> target_dict]

(***************************************************************************)
(* xiervjson(data, file_path, indent, encoding, ensure_ascii):             *)
(* [ret, raised, fs], the value returned, the exception that left the      *)
(* call (none: ""), and the filesystem after the call                      *)
(***************************************************************************)
RECURSIVE Ancestors(_)
Ancestors(p) ==
    IF p = <<>> THEN <<>>
    ELSE IF dirname(p) = p THEN <<p>>
    ELSE Ancestors(dirname(p)) \o <<p>>

MkDirs(fs, made) == [fs EXCEPT !.dirs = fs.dirs \cup {made[i] : i \in 1..Len(made)}]

\* os.makedirs(dir_path, exist_ok=True): [raised, fs]
makedirs(fs, dir_path, env) ==
    LET NotThere(a) == ~exists(fs, a)
        NoNul(a)    == ~HasNul(a)
        missing     == SelectSeq(Ancestors(dir_path), NotThere)
        underFile   == \E i \in 1..Len(missing) : isfile(fs, dirname(missing[i]))
    IN  IF HasNul(dir_path)
        THEN [raised |-> "ValueError", fs |-> MkDirs(fs, SelectSeq(missing, NoNul))]
        ELSE IF underFile \/ env = "makedirs0" THEN [raised |-> "OSError", fs |-> fs]
        ELSE IF env = "makedirs1" /\ Len(missing) >= 2
             THEN [raised |-> "OSError", fs |-> MkDirs(fs, SubSeq(missing, 1, 1))]
        ELSE [raised |-> "", fs |-> MkDirs(fs, missing)]

\* no json.dumps before the open
PreValidate_skipped(data, indent, ensure_ascii) == ""

\* json.dumps(data, ...) of line 117, for the exception it may raise
PreValidate(data, indent, ensure_ascii) == json_dumps(data, indent, ensure_ascii).raised

\* open(file_path, 'w', encoding=encoding): the exception raised, "" for none
OpenForWrite(fs, p, env) ==
    IF HasNul(p) THEN "ValueError"
    ELSE IF isdir(fs, p) \/ ~isdir(fs, dirname(p)) \/ p \notin FilePaths THEN "OSError"
    ELSE IF env = "open" THEN "OSError"
    ELSE ""

\* json.dump(data, file, ...) into the file just opened and truncated, then
\* the close: [raised, content].  A chunk the codec cannot write raises
\* UnicodeEncodeError and the chunks before it reach the file.
json_dump(data, indent, encoding, ensure_ascii, env) ==
    LET r       == IterEncode(data, indent, ensure_ascii, 0)
        CanWrite(chunk) == \A i \in 1..Len(chunk) : Encodable(chunk[i], encoding)
        bad     == {i \in 1..Len(r.chunks) : ~CanWrite(r.chunks[i])}
        n       == IF bad = {} THEN Len(r.chunks) ELSE (CHOOSE i \in bad : \A j \in bad : i <= j) - 1
    IN  IF bad # {} THEN [raised |-> "UnicodeEncodeError", content |-> Flatten(SubSeq(r.chunks, 1, n))]
        ELSE IF ~r.ok THEN [raised |-> "TypeError", content |-> Flatten(r.chunks)]
        ELSE IF env = "flush" THEN [raised |-> "OSError", content |-> <<>>]
        ELSE [raised |-> "", content |-> Flatten(r.chunks)]

Returned(v, fs) == [ret |-> v, raised |-> "", fs |-> fs]

\* the file opened with 'a' where the code has 'w'
WriteFile_append(fs, data, p, indent, encoding, ensure_ascii, env) ==
    IF PreValidate(data, indent, ensure_ascii) # "" THEN Returned(PyFalse, fs)
    ELSE IF OpenForWrite(fs, p, env) # "" THEN Returned(PyFalse, fs)
    ELSE LET w == json_dump(data, indent, encoding, ensure_ascii, env)
             after == [fs EXCEPT !.files[p] = FileOf(fs.files[p].content \o w.content)]
         IN  Returned(PyBool(w.raised = ""), after)

\* lines 115-134: the try block
WriteFile(fs, data, p, indent, encoding, ensure_ascii, env) ==
    IF PreValidate(data, indent, ensure_ascii) # "" THEN Returned(PyFalse, fs)
    ELSE IF OpenForWrite(fs, p, env) # "" THEN Returned(PyFalse, fs)
    ELSE LET w == json_dump(data, indent, encoding, ensure_ascii, env)
             after == [fs EXCEPT !.files[p] = FileOf(w.content)]
         IN  Returned(PyBool(w.raised = ""), after)

\* the directories made before the data's type is looked at
xiervjson_dirs_first(fs, data, file_path, indent, encoding, ensure_ascii, env) ==
    IF ~isinstance(file_path, "str") THEN Returned(PyFalse, fs)
    ELSE LET dir_path == dirname(file_path.s)
             mk == IF dir_path # <<>> /\ ~exists(fs, dir_path)
                   THEN makedirs(fs, dir_path, env)
                   ELSE [raised |-> "", fs |-> fs]
         IN  IF mk.raised = "OSError" THEN Returned(PyFalse, mk.fs)
             ELSE IF mk.raised # "" THEN [ret |-> None, raised |-> mk.raised, fs |-> mk.fs]
             ELSE IF ~isinstance(data, "dict") THEN Returned(PyFalse, mk.fs)
             ELSE WriteFile(mk.fs, data, file_path.s, indent, encoding, ensure_ascii, env)

xiervjson(fs, data, file_path, indent, encoding, ensure_ascii, env) ==
    IF ~isinstance(data, "dict") THEN Returned(PyFalse, fs)
    ELSE IF ~isinstance(file_path, "str") THEN Returned(PyFalse, fs)
    ELSE LET dir_path == dirname(file_path.s)
             mk == IF dir_path # <<>> /\ ~exists(fs, dir_path)
                   THEN makedirs(fs, dir_path, env)
                   ELSE [raised |-> "", fs |-> fs]
         IN  IF mk.raised = "OSError" THEN Returned(PyFalse, mk.fs)
             ELSE IF mk.raised # "" THEN [ret |-> None, raised |-> mk.raised, fs |-> mk.fs]
             ELSE WriteFile(mk.fs, data, file_path.s, indent, encoding, ensure_ascii, env)

(***************************************************************************)
(* Arguments and filesystems the calls are drawn from                      *)
(***************************************************************************)
MaxCalls == 2

DefaultIndent == 4

Indents == {0, DefaultIndent}

\* 123 is a path of the wrong type
PathArgs == {PyInt(123), PyStr(P_f), PyStr(P_d), PyStr(P_def), PyStr(P_nul)}

M_empty  == PyDict(<<>>)
M_nested == PyDict(<<Item(<<"a">>, PyList(<<PyInt(-10), PyDict(<<Item(<<EACUTE>>, None)>>)>>)),
                     Item(<<"k">>, PyStr(<<"q", QUOTE, BSLASH, NL>>))>>)
M_flat   == PyDict(<<Item(<<"b">>, PyTrue), Item(<<"e">>, PyList(<<>>))>>)
\* {"a": 1, "o": [object()]}
M_object == PyDict(<<Item(<<"a">>, PyInt(1)), Item(<<"o">>, PyList(<<PyObject>>))>>)
L_list   == PyList(<<PyStr(<<"a">>)>>)

Mappings == {M_empty, M_nested, M_flat}

DataArgs == Mappings \cup {M_object, L_list}

D_one == PyDict(<<Item(<<"d">>, PyInt(1))>>)

Defaults == {None, PyDict(<<>>), D_one, PyStr(<<"x">>)}

\* a target that shares the key "a" with the files below and has one of its own
T_two == PyDict(<<Item(<<"t">>, PyFalse), Item(<<"a">>, PyInt(0))>>)

Targets == {None, PyDict(<<>>), T_two, PyStr(<<"x">>)}

C_empty   == <<>>
C_blank   == <<SP, NL>>
C_broken  == <<"{", QUOTE, "a", QUOTE>>
C_list    == <<"[", "1", "]">>
C_null    == <<"n", "u", "l", "l">>
C_scalar  == <<"-", "7">>
\* {"a": 2, "z": "<U+00E9>","a":7}: json.loads keeps the later "a", at the place of the first
C_valid   == <<"{", QUOTE, "a", QUOTE, ":", SP, "2", ",", SP, QUOTE, "z", QUOTE, ":", SP,
               QUOTE, EACUTE, QUOTE, ",", QUOTE, "a", QUOTE, ":", "7", "}">>
C_badbyte == <<"{", "}", BADBYTE>>

Contents == {C_empty, C_blank, C_broken, C_list, C_null, C_scalar, C_valid, C_badbyte}

Files(f, d, def) == (P_f :> f) @@ (P_d :> d) @@ (P_def :> def)

\* the filesystems a call may find: one file at most, under the directories it needs
InitFs ==
    {[dirs |-> {}, files |-> Files(f, NoFile, NoFile)] : f \in {NoFile} \cup {FileOf(c) : c \in Contents}}
    \cup {[dirs |-> {}, files |-> Files(NoFile, FileOf(C_valid), NoFile)]}
    \cup {[dirs |-> {P_d}, files |-> Files(f, NoFile, NoFile)] : f \in {NoFile, FileOf(C_valid)}}
    \cup {[dirs |-> {P_d, P_de}, files |-> Files(NoFile, NoFile, f)] :
             f \in {NoFile, FileOf(C_valid), FileOf(C_blank)}}

(***************************************************************************)
(* State: the filesystem, the filesystem before the call in hand, that     *)
(* call and what it gave back.  The caller makes a call, then takes the    *)
(* result before it calls again.                                           *)
(***************************************************************************)
VARIABLES fs, pre, call, result, ncalls

vars == <<fs, pre, call, result, ncalls>>

Call(op, path, arg, indent, encoding, ensure_ascii, env) ==
    [op |-> op, path |-> path, arg |-> arg, indent |-> indent, encoding |-> encoding,
     ensure_ascii |-> ensure_ascii, env |-> env]

Result(ret, raised, target) == [ret |-> ret, raised |-> raised, target |-> target]

NoCall == Call("none", None, None, 0, "utf-8", FALSE, "ok")

NoResult == Result(None, "", None)

Init ==
    /\ fs \in InitFs
    /\ pre = fs
    /\ call = NoCall
    /\ result = NoResult
    /\ ncalls = 0

Idle == call = NoCall

Read ==
    /\ Idle
    /\ ncalls < MaxCalls
    /\ \E path \in PathArgs, encoding \in Encodings, default \in Defaults, env \in ReadEnvs :
          /\ call' = Call("read", path, default, 0, encoding, FALSE, env)
          /\ result' = Result(read_json_to_dict(fs, path, encoding, default, env), "", None)
    /\ pre' = fs
    /\ ncalls' = ncalls + 1
    /\ UNCHANGED fs

Write ==
    /\ Idle
    /\ ncalls < MaxCalls
    /\ \E data \in DataArgs, path \in PathArgs, indent \in Indents, encoding \in Encodings,
          ensure_ascii \in BOOLEAN, env \in WriteEnvs :
          LET r == xiervjson(fs, data, path, indent, encoding, ensure_ascii, env) IN
          /\ call' = Call("write", path, data, indent, encoding, ensure_ascii, env)
          /\ result' = Result(r.ret, r.raised, None)
          /\ fs' = r.fs
    /\ pre' = fs
    /\ ncalls' = ncalls + 1

Load ==
    /\ Idle
    /\ ncalls < MaxCalls
    /\ \E path \in PathArgs, target \in Targets, encoding \in Encodings, env \in ReadEnvs :
          LET r == json_to_dict(fs, path, target, encoding, env) IN
          /\ call' = Call("load", path, target, 0, encoding, FALSE, env)
          /\ result' = Result(r.ret, "", r.target)
    /\ pre' = fs
    /\ ncalls' = ncalls + 1
    /\ UNCHANGED fs

\* the caller has the result; nothing of the call is kept
Return ==
    /\ ~Idle
    /\ call' = NoCall
    /\ result' = NoResult
    /\ pre' = fs
    /\ UNCHANGED <<fs, ncalls>>

Next == Read \/ Write \/ Load \/ Return

Spec == Init /\ [][Next]_vars

FsWellFormed ==
    /\ fs.dirs \subseteq {P_d, P_de}
    /\ DOMAIN fs.files = FilePaths
    /\ \A p \in FilePaths : fs.files[p].exists => isdir(fs, dirname(p)) /\ ~isdir(fs, p)
    /\ ncalls \in 0..MaxCalls

(***************************************************************************)
(* Properties of the calls                                                 *)
(***************************************************************************)
IsMapping(o) == isinstance(o, "dict")

\* a value JSON has a form for
RECURSIVE JsonValue(_)
JsonValue(o) ==
    \/ o.t \in {"None", "bool", "int", "str"}
    \/ /\ o.t \in {"list", "dict"}
       /\ \A i \in 1..Len(o.items) : JsonValue(o.items[i].v)

WhitespaceOnly(c) == \A i \in 1..Len(c) : c[i] \in Whitespace

\* the file the call names, as it was before the call
Named == pre.files[call.path.s]

NamesFile == isinstance(call.path, "str") /\ isfile(pre, call.path.s)

\* the call named a file it could open and decode
ReadsText == NamesFile /\ call.env = "ok" /\ Decodable(Named.content, call.encoding)

\* the path's parent directory was missing before the call
ParentMissing ==
    /\ isinstance(call.path, "str")
    /\ dirname(call.path.s) # <<>>
    /\ ~exists(pre, dirname(call.path.s))

\* C1: after xiervjson(M, path) returned True, read_json_to_dict(path), with
\* no default or any mapping default, and json_to_dict(path) in return mode
\* both give a mapping equal to M, whatever the path held before.
C1_RoundTrip ==
    (call.op = "write" /\ result.raised = "" /\ result.ret = PyTrue) =>
        /\ \A default \in {d \in Defaults : d = None \/ IsMapping(d)} :
              read_json_to_dict(fs, call.path, call.encoding, default, "ok") = call.arg
        /\ json_to_dict(fs, call.path, None, call.encoding, "ok").ret = call.arg

C1_Witness ==
    /\ call.op = "write" /\ result.ret = PyTrue
    /\ call.arg = M_nested /\ call.path = PyStr(P_f)
    /\ call.indent = DefaultIndent /\ call.encoding = "utf-8" /\ ~call.ensure_ascii
    /\ pre.files[P_f] = FileOf(C_valid)
    /\ read_json_to_dict(fs, call.path, "utf-8", D_one, "ok") = M_nested

\* C2: read_json_to_dict with a supplied default that is no mapping returns
\* None for every path argument, a path that is no string included.
C2_NonMappingDefaultGivesNone ==
    (call.op = "read" /\ call.arg # None /\ ~IsMapping(call.arg)) => result.ret = None

\* C3: read_json_to_dict with a path that is no string, does not exist or
\* names a directory returns the mapping default it was given, None when it
\* was given none, and leaves the filesystem as it was.
C3_DefaultFallback ==
    ( /\ call.op = "read"
      /\ call.arg = None \/ IsMapping(call.arg)
      /\ \/ ~isinstance(call.path, "str")
         \/ ~exists(pre, call.path.s)
         \/ isdir(pre, call.path.s) ) =>
        /\ result.ret = call.arg
        /\ fs = pre

C3_Witness ==
    /\ call.op = "read" /\ call.arg = D_one
    /\ call.path = PyStr(P_d) /\ P_d \in pre.dirs
    /\ result.ret = D_one

\* C4: for a readable file that is empty or whitespace only, or whose text
\* parses to a value that is no mapping, read_json_to_dict returns the mapping
\* default supplied, and an empty mapping (never None) when none was supplied;
\* for a malformed file it returns the default, None when none was supplied.
C4_EmptyOrWrongShape ==
    (call.op = "read" /\ ReadsText /\ (call.arg = None \/ IsMapping(call.arg))) =>
        LET parsed == json_loads(Named.content) IN
        /\ (WhitespaceOnly(Named.content) \/ (parsed.raised = "" /\ ~IsMapping(parsed.v))) =>
              result.ret = IF call.arg = None THEN PyDict(<<>>) ELSE call.arg
        /\ (~WhitespaceOnly(Named.content) /\ parsed.raised # "") => result.ret = call.arg

C4_Witness ==
    /\ call.op = "read" /\ ReadsText /\ call.arg = None
    /\ Named.content = C_list
    /\ result.ret = PyDict(<<>>)

\* C5: xiervjson with data that is no mapping, or a path that is no string,
\* returns False and leaves every file and directory as it was.
C5_WriterTypeRejection ==
    (call.op = "write" /\ (~IsMapping(call.arg) \/ ~isinstance(call.path, "str"))) =>
        /\ result.raised = ""
        /\ result.ret = PyFalse
        /\ fs = pre

C5_Witness ==
    /\ call.op = "write" /\ call.arg = L_list
    /\ call.path = PyStr(P_def) /\ pre.dirs = {}
    /\ result.ret = PyFalse

\* C6: xiervjson given a mapping that holds a value that cannot be serialized
\* returns False and never opens the destination: every file is as it was.
C6_PreValidated ==
    (call.op = "write" /\ IsMapping(call.arg) /\ ~JsonValue(call.arg)) =>
        /\ result.raised = ""
        /\ result.ret = PyFalse
        /\ fs.files = pre.files

\* C7: json_to_dict(path, T) on a file whose text parses to a mapping P, for a
\* mapping T, returns True and leaves T with the keys of T and P, P's value
\* for each key of P, T's old value for every other key; the file is as it was.
C7_MergeSuccess ==
    LET P == json_loads(Named.content)
        T == call.arg
    IN  ( /\ call.op = "load" /\ IsMapping(T) /\ ReadsText
          /\ P.raised = "" /\ IsMapping(P.v) ) =>
            /\ result.ret = PyTrue
            /\ IsMapping(result.target)
            /\ Keys(result.target) = Keys(T) \cup Keys(P.v)
            /\ \A k \in Keys(P.v) : Get(result.target, k) = Get(P.v, k)
            /\ \A k \in Keys(T) \ Keys(P.v) : Get(result.target, k) = Get(T, k)
            /\ fs = pre

C7_Witness ==
    /\ call.op = "load" /\ call.arg = T_two /\ ReadsText
    /\ Named.content = C_valid
    /\ result.ret = PyTrue
    /\ result.target = PyDict(<<Item(<<"t">>, PyFalse), Item(<<"a">>, PyInt(7)),
                                Item(<<"z">>, PyStr(<<EACUTE>>))>>)

\* the call of json_to_dict failed: the file is missing, cannot be opened or
\* decoded, is malformed or holds no mapping, or the target is no mapping
LoadFails ==
    \/ ~ReadsText
    \/ json_loads(Named.content).raised # ""
    \/ ~IsMapping(json_loads(Named.content).v)
    \/ call.arg # None /\ ~IsMapping(call.arg)

\* C8: on every failure json_to_dict returns False when a target was supplied
\* (an empty mapping or a value that is no mapping included), an empty mapping
\* when none was; the target is as it was and no exception leaves the call.
C8_FailureConvergence ==
    (call.op = "load" /\ LoadFails) =>
        /\ result.raised = ""
        /\ result.ret = IF call.arg = None THEN PyDict(<<>>) ELSE PyFalse
        /\ result.target = call.arg
        /\ fs = pre

C8_Witness ==
    /\ call.op = "load" /\ call.arg = PyDict(<<>>)
    /\ call.path = PyStr(P_f) /\ ~pre.files[P_f].exists
    /\ result.ret = PyFalse

\* C9: xiervjson with a serializable mapping and a path whose parent directory
\* is missing returns True, with every ancestor directory and the file there,
\* when no filesystem operation fails; when making the directories fails it
\* returns False and no file is made at the path.
C9_DirectoryAutoCreation ==
    (call.op = "write" /\ IsMapping(call.arg) /\ JsonValue(call.arg) /\ ParentMissing) =>
        LET p  == call.path.s
            mk == makedirs(pre, dirname(p), call.env)
            w  == json_dump(call.arg, call.indent, call.encoding, call.ensure_ascii, call.env)
        IN  /\ (mk.raised = "" /\ OpenForWrite(mk.fs, p, call.env) = "" /\ w.raised = "") =>
                  /\ result.ret = PyTrue
                  /\ \A i \in 1..Len(Ancestors(dirname(p))) : isdir(fs, Ancestors(dirname(p))[i])
                  /\ isfile(fs, p)
            /\ mk.raised # "" =>
                  /\ result.raised = ""
                  /\ result.ret = PyFalse
                  /\ ~isfile(fs, p)

\* C10, as stated: whenever xiervjson returns False, the files and the
\* directories are the same as before the call.
C10_FailedWriteLeavesFs ==
    (call.op = "write" /\ result.raised = "" /\ result.ret = PyFalse) => fs = pre

\* making the directories was tried and raised OSError
MakedirsFailed ==
    ParentMissing /\ makedirs(pre, dirname(call.path.s), call.env).raised = "OSError"

\* C10, amended: whenever xiervjson returns False no directory is lost; after
\* a type rejection the filesystem is as it was; after a failure to make the
\* directories or with data that cannot be serialized every file is as it was,
\* though missing ancestors of the path may have been made; only a failure
\* while writing may leave the destination made, truncated or partly written.
C10_FailedWriteAmended ==
    (call.op = "write" /\ result.raised = "" /\ result.ret = PyFalse) =>
        /\ pre.dirs \subseteq fs.dirs
        /\ (~IsMapping(call.arg) \/ ~isinstance(call.path, "str")) => fs = pre
        /\ (IsMapping(call.arg) /\ isinstance(call.path, "str")) =>
              /\ fs.dirs \ pre.dirs \subseteq
                    {Ancestors(dirname(call.path.s))[i] : i \in 1..Len(Ancestors(dirname(call.path.s)))}
              /\ \A q \in FilePaths \ {call.path.s} : fs.files[q] = pre.files[q]
              /\ (~JsonValue(call.arg) \/ MakedirsFailed) => fs.files = pre.files

C10_Witness ==
    /\ call.op = "write" /\ result.ret = PyFalse
    /\ call.arg = M_object /\ call.path = PyStr(P_def)
    /\ pre.dirs = {} /\ fs.dirs = {P_d, P_de}
    /\ fs.files = pre.files

====
